---------------------------- MODULE Spec2Model ----------------------------
(***************************************************************************)
(* RNNTextClassifier (nlp-models/pytorch/birnn_attn_text_clf.py): the      *)
(* training loop fit, the evaluation loop evaluate, the batch generator    *)
(* gen_batch and the learning-rate scheduler adjust_lr.                    *)
(*                                                                         *)
(* Features are modelled by their index in the array passed by the caller  *)
(* (X = <<1, .., N>>), labels by class numbers.  The numeric forward pass  *)
(* is abstracted to a deterministic function of the parameter version and  *)
(* the feature.  Floating point values are fixed-point integers: learning  *)
(* rates in units of 1e-6, exponentials in units of 1/FxScale.             *)
(*                                                                         *)
(* Spec is one call of fit or of evaluate on a freshly constructed object, *)
(* statement by statement; SpecBatch is gen_batch called directly, one     *)
(* next() at a time; SpecLr is adjust_lr called directly.  Variables       *)
(* marked "history" record what happened and are read by no action.        *)
(***************************************************************************)
EXTENDS Integers, Sequences, FiniteSets

\* ------------------------------------------------------------- bounds
MaxLen == 3
MaxEpoch == 2
MaxBatch == 3
MaxTotal == 4
MaxStep == 5

\* ------------------------------------------------------------- program constants
NOut == 2
ReportEvery == 100
MaxLr == 5000
MinLr == 1000
DefaultLr == 1000
NumParamGroups == 1
FxScale == 10000
LogMinOverMax == -16094
TaylorTerms == 9

Classes == 0 .. (NOut - 1)
ParamGroups == 1 .. NumParamGroups

\* ------------------------------------------------------------- python helpers
Min2(a, b) == IF a <= b THEN a ELSE b
Max2(a, b) == IF a >= b THEN a ELSE b

\* list(range(start, stop, step)) for step # 0
RECURSIVE PyRange(_, _, _)
PyRange(start, stop, step) ==
    IF (step > 0 /\ start < stop) \/ (step < 0 /\ start > stop)
    THEN <<start>> \o PyRange(start + step, stop, step)
    ELSE << >>

\* arr[lo : hi] for 0 <= lo (indices of python, 0-based, hi exclusive and clipped)
PySlice(arr, lo, hi) ==
    LET l == Min2(Max2(lo, 0), Len(arr))
        h == Min2(Max2(hi, 0), Len(arr))
    IN  IF h <= l THEN << >> ELSE SubSeq(arr, l + 1, h)

\* zip(a, b): stops with the shorter one
Zip(a, b) == [k \in 1 .. Min2(Len(a), Len(b)) |-> <<a[k], b[k]>>]

\* a variant that loses the trailing partial slice
GenBatch_dropTail(arr, B) ==
    [err   |-> (B = 0),
     items |-> IF B = 0 THEN << >>
               ELSE LET r == PyRange(0, Len(arr) - B + 1, B)
                    IN  [k \in 1 .. Len(r) |-> PySlice(arr, r[k], r[k] + B)]]

\* gen_batch(arr, batch_size) run to exhaustion: the slices it yields, or the
\* ValueError of range() for a zero step
GenBatch(arr, B) ==
    [err   |-> (B = 0),
     items |-> IF B = 0 THEN << >>
               ELSE LET r == PyRange(0, Len(arr), B)
                    IN  [k \in 1 .. Len(r) |-> PySlice(arr, r[k], r[k] + B)]]

\* ------------------------------------------------------------- inputs
FeatureArrays == {[i \in 1 .. n |-> i] : n \in 0 .. MaxLen}
LabelArrays == UNION {[1 .. n -> Classes] : n \in 0 .. MaxLen}
PermTable ==
    [n \in 0 .. MaxLen |->
        {p \in [1 .. n -> 1 .. n] : \A i, j \in 1 .. n : p[i] = p[j] => i = j}]
PermsOf(n) == PermTable[n]

\* ------------------------------------------------------------- adjust_lr arithmetic
\* exp(-x / FxScale) * FxScale for 0 <= x <= FxScale: the alternating series,
\* term k = term (k-1) * x / k
RECURSIVE ExpNegSeries(_, _, _, _)
ExpNegSeries(x, k, term, acc) ==
    IF k > TaylorTerms \/ term = 0 THEN acc
    ELSE LET t == (term * x) \div (k * FxScale)
         IN  ExpNegSeries(x, k + 1, t, IF k % 2 = 1 THEN acc - t ELSE acc + t)

\* exp(-x / FxScale) * FxScale for x >= 0, by halving the argument down to [0, 1]
RECURSIVE ExpNeg(_)
ExpNeg(x) ==
    IF x > FxScale
    THEN LET h == ExpNeg(x \div 2) IN (h * h) \div FxScale
    ELSE ExpNegSeries(x, 1, FxScale, FxScale)

\* the value adjust_lr computes, total_steps > 0:
\*   decay_rate = log(min_lr / max_lr) / (-total_steps);  lr = max_lr * exp(-decay_rate * current_step)
LrValue(current_step, total_steps) ==
    LET decay_rate == (0 - LogMinOverMax) \div total_steps
    IN  (MaxLr * ExpNeg(decay_rate * current_step)) \div FxScale

\* a scheduler whose decay starts one step late
AdjustLr_lateDecay(groups, current_step, total_steps) ==
    IF total_steps = 0
    THEN [err |-> TRUE, lr |-> 0, groups |-> groups]
    ELSE LET v == LrValue(Max2(current_step - 1, 0), total_steps)
         IN  [err |-> FALSE, lr |-> v, groups |-> [g \in DOMAIN groups |-> v]]

\* adjust_lr(optimizer, current_step, total_steps): ZeroDivisionError for
\* total_steps = 0 (before anything is written), else the rate, written to
\* every parameter group
AdjustLr(groups, current_step, total_steps) ==
    IF total_steps = 0
    THEN [err |-> TRUE, lr |-> 0, groups |-> groups]
    ELSE LET v == LrValue(current_step, total_steps)
         IN  [err |-> FALSE, lr |-> v, groups |-> [g \in DOMAIN groups |-> v]]

\* ------------------------------------------------------------- forward pass
\* the class forward() scores highest for feature x under parameters p
\* (forward, then torch.max(.., 1)): a deterministic function of both
Predict(p, x) == (p + x) % NOut

\* the steps of one mini-batch of fit, in the order of its statements
Canonical ==
    <<"Forward", "ComputeLoss", "ComputeLR", "ZeroGrad", "Backward", "OptimizerStep", "Report">>

\* a loop body that calls backward() before zero_grad()
After_backwardFirst(stage) ==
    CASE stage = "Forward" -> "ComputeLoss"
      [] stage = "ComputeLoss" -> "ComputeLR"
      [] stage = "ComputeLR" -> "Backward"
      [] stage = "Backward" -> "ZeroGrad"
      [] stage = "ZeroGrad" -> "OptimizerStep"
      [] stage = "OptimizerStep" -> "Report"
      [] stage = "Report" -> "BatchHead"

\* the statement that follows a step in the body of fit's batch loop
After(stage) ==
    CASE stage = "Forward" -> "ComputeLoss"
      [] stage = "ComputeLoss" -> "ComputeLR"
      [] stage = "ComputeLR" -> "ZeroGrad"
      [] stage = "ZeroGrad" -> "Backward"
      [] stage = "Backward" -> "OptimizerStep"
      [] stage = "OptimizerStep" -> "Report"
      [] stage = "Report" -> "BatchHead"

\* a shuffle that permutes the features and leaves the labels in place
Shuffle2_featuresOnly(Xa, ya, p) ==
    <<[i \in 1 .. Len(Xa) |-> Xa[p[i]]], ya>>

\* sklearn.utils.shuffle(X, y) for arrays of one length: one permutation p of
\* the indices, applied to both
Shuffle2(Xa, ya, p) ==
    <<[i \in 1 .. Len(Xa) |-> Xa[p[i]]], [i \in 1 .. Len(ya) |-> ya[p[i]]]>>

\* number of positions where the predictions equal the labels (equal lengths)
Matches(ps, ls) == Cardinality({i \in 1 .. Len(ps) : ps[i] = ls[i]})

\* (preds == labels).sum() when one side has a single element and is broadcast
BroadcastMatches(ps, ls) ==
    IF Len(ps) = 1
    THEN Cardinality({i \in 1 .. Len(ls) : ps[1] = ls[i]})
    ELSE Cardinality({i \in 1 .. Len(ps) : ps[i] = ls[1]})

\* '%.4f' % (float(correct) / total), in units of 1e-4, total > 0
Round4(c, t) == (2 * 10000 * c + t) \div (2 * t)

VARIABLES
    gen,          \* the generator object of a direct gen_batch call
    sched,        \* the last two direct adjust_lr calls
    params,       \* version of the trainable parameters (optimizer steps that changed them)
    grad,         \* gradient buffers: "none", "zero" or "ready"
    opt_lr,       \* optimizer.param_groups[g]['lr']
    pc,           \* the statement fit / evaluate executes next; "Idle" outside a call
    call,         \* "none", "fit" or "evaluate"
    result,       \* "none", "running", "ok" (returned) or "error" (raised)
    error,        \* the exception raised, and the step that raised it
    X, y,         \* the arrays X and y of the call (rebound by the shuffle)
    n_epoch, batch_size, en_shuffle,
    global_step, n_batch, total_steps,
    epoch,        \* the loop variable of line 67; n_epoch once the loop has ended
    it,           \* items the zip of the two generators produced in this epoch
    local_step,
    X_batch, y_batch, preds, lr, acc, printed,
    correct, total, reported,
    X0, y0,       \* history: the arrays as passed by the caller
    params0,      \* history: the parameters and rates at the call
    opt_lr0,
    presented,    \* history: (feature, label) pairs given to the loss this epoch
    log,          \* history: the steps executed for the current mini-batch
    opt_steps,    \* history: optimizer.step() calls of this call
    lr_args,      \* history: the arguments of the adjust_lr calls of this call
    batches_done, \* history: mini-batches whose loop body ran to its end
    shuffles      \* history: shuffles done by this call

genVars == <<gen>>
schedVars == <<sched>>
modelVars == <<params, grad, opt_lr>>
argVars == <<X, y, n_epoch, batch_size, en_shuffle, n_batch, total_steps>>
loopVars == <<epoch, it, local_step, X_batch, y_batch>>
fitVars == <<global_step, preds, lr, acc, printed>>
evalVars == <<correct, total, reported>>
histVars == <<X0, y0, params0, opt_lr0, presented, log, opt_steps, lr_args, batches_done, shuffles>>
callVars == <<pc, call, result, error, argVars, loopVars, fitVars, evalVars, histVars>>
vars == <<genVars, schedVars, modelVars, callVars>>

NoGen == [arr |-> << >>, B |-> 1, k |-> 0, out |-> << >>, state |-> "none"]
NoError == [kind |-> "none", at |-> "none"]

\* the object after __init__: Adam with its default learning rate in one group
Init ==
    /\ gen = NoGen
    /\ sched = << >>
    /\ params = 0
    /\ grad = "none"
    /\ opt_lr = [g \in ParamGroups |-> DefaultLr]
    /\ pc = "Idle" /\ call = "none" /\ result = "none" /\ error = NoError
    /\ X = << >> /\ y = << >>
    /\ n_epoch = 1 /\ batch_size = 1 /\ en_shuffle = FALSE
    /\ global_step = 0 /\ n_batch = 0 /\ total_steps = 0
    /\ epoch = 0 /\ it = 0 /\ local_step = 0
    /\ X_batch = << >> /\ y_batch = << >> /\ preds = << >>
    /\ lr = 0 /\ acc = <<0, 0>> /\ printed = 0
    /\ correct = 0 /\ total = 0 /\ reported = 0
    /\ X0 = << >> /\ y0 = << >> /\ params0 = 0 /\ opt_lr0 = opt_lr
    /\ presented = << >> /\ log = << >> /\ opt_steps = 0 /\ lr_args = << >>
    /\ batches_done = 0 /\ shuffles = 0

\* ------------------------------------------------------------- gen_batch, called directly
\* g = gen_batch(arr, B): the generator object; its body has not run yet
NewGenBatch ==
    /\ gen.state \in {"none", "exhausted", "error"}
    /\ \E arr \in FeatureArrays \cup LabelArrays, B \in (0 - MaxBatch) .. MaxBatch :
        /\ gen' = [arr |-> arr, B |-> B, k |-> 0, out |-> << >>, state |-> "created"]
        /\ UNCHANGED <<schedVars, modelVars, callVars>>

\* next(g): runs the body up to the next yield, StopIteration or the ValueError
GenNext ==
    /\ gen.state \in {"created", "running"}
    /\ LET g == GenBatch(gen.arr, gen.B)
       IN  gen' = IF g.err
                  THEN [gen EXCEPT !.state = "error"]
                  ELSE IF gen.k < Len(g.items)
                  THEN [gen EXCEPT !.k = gen.k + 1,
                                   !.out = Append(gen.out, g.items[gen.k + 1]),
                                   !.state = "running"]
                  ELSE [gen EXCEPT !.state = "exhausted"]
    /\ UNCHANGED <<schedVars, modelVars, callVars>>

NextBatch == NewGenBatch \/ GenNext

SpecBatch == Init /\ [][NextBatch]_vars

\* ------------------------------------------------------------- adjust_lr, called directly
\* the steps of a schedule of total_steps steps and of its overrun
StepsOf(ts) == 0 .. Min2(MaxStep, 2 * ts)

\* self.adjust_lr(self.optimizer, current_step, total_steps)
CallAdjustLr ==
    \E ts \in 0 .. MaxTotal :
      \E cs \in StepsOf(ts) :
        LET r == AdjustLr(opt_lr, cs, ts)
            c == [step |-> cs, total |-> ts, err |-> r.err, lr |-> r.lr]
        IN  /\ sched' = IF Len(sched) < 2 THEN Append(sched, c) ELSE <<sched[2], c>>
            /\ opt_lr' = r.groups
            /\ UNCHANGED <<genVars, params, grad, callVars>>

NextLr == CallAdjustLr

SpecLr == Init /\ [][NextLr]_vars

\* ------------------------------------------------------------- fit
\* the pairs the zip of gen_batch(X, B) and gen_batch(y, B) produces
Batches == Zip(GenBatch(X, batch_size).items, GenBatch(y, batch_size).items)

\* an exception leaves the call
Raise(kind, at) ==
    /\ pc' = "Idle"
    /\ result' = "error"
    /\ error' = [kind |-> kind, at |-> at]

Logged(step) == Append(log, [step |-> step, epoch |-> epoch, local_step |-> local_step])

\* fit(X, y, n_epoch, batch_size, en_shuffle), lines 62-65
CallFit ==
    /\ pc = "Idle" /\ call = "none"
    /\ \E Xa \in FeatureArrays, ya \in LabelArrays, E \in 1 .. MaxEpoch,
          B \in 1 .. MaxBatch, sh \in BOOLEAN :
        /\ call' = "fit" /\ result' = "running" /\ error' = NoError
        /\ X' = Xa /\ y' = ya /\ n_epoch' = E /\ batch_size' = B /\ en_shuffle' = sh
        /\ global_step' = 0
        /\ n_batch' = Len(Xa) \div B
        /\ total_steps' = E * (Len(Xa) \div B)
        /\ epoch' = 0 /\ it' = 0 /\ local_step' = 0
        /\ X_batch' = << >> /\ y_batch' = << >> /\ preds' = << >>
        /\ lr' = 0 /\ acc' = <<0, 0>> /\ printed' = 0
        /\ X0' = Xa /\ y0' = ya /\ params0' = params /\ opt_lr0' = opt_lr
        /\ presented' = << >> /\ log' = << >> /\ opt_steps' = 0 /\ lr_args' = << >>
        /\ batches_done' = 0 /\ shuffles' = 0
        /\ pc' = "EpochHead"
        /\ UNCHANGED <<genVars, schedVars, modelVars, evalVars>>

\* for epoch in range(n_epoch), line 67: the next epoch, or the end of fit
EpochHead ==
    /\ pc = "EpochHead"
    /\ IF epoch < n_epoch
       THEN /\ pc' = IF en_shuffle THEN "Shuffle" ELSE "BatchHead"
            /\ it' = 0
            /\ presented' = << >>
            /\ log' = << >>
            /\ UNCHANGED <<result, error>>
       ELSE /\ pc' = "Idle"
            /\ result' = "ok"
            /\ UNCHANGED <<error, it, presented, log>>
    /\ UNCHANGED <<genVars, schedVars, modelVars, call, argVars, epoch, local_step,
                   X_batch, y_batch, fitVars, evalVars, X0, y0, params0, opt_lr0,
                   opt_steps, lr_args, batches_done, shuffles>>

\* X, y = shuffle(X, y), lines 68-69: ValueError for arrays of different lengths
Shuffle ==
    /\ pc = "Shuffle"
    /\ IF Len(X) # Len(y)
       THEN /\ Raise("ValueError", "Shuffle")
            /\ UNCHANGED <<X, y, shuffles>>
       ELSE /\ \E p \in PermsOf(Len(X)) :
                   /\ X' = Shuffle2(X, y, p)[1]
                   /\ y' = Shuffle2(X, y, p)[2]
            /\ shuffles' = shuffles + 1
            /\ pc' = "BatchHead"
            /\ UNCHANGED <<result, error>>
    /\ UNCHANGED <<genVars, schedVars, modelVars, call, n_epoch, batch_size, en_shuffle,
                   n_batch, total_steps, loopVars, fitVars, evalVars, X0, y0, params0,
                   opt_lr0, presented, log, opt_steps, lr_args, batches_done>>

\* the for statement of lines 71-72: the next pair of slices, or the end of the epoch
BatchHead ==
    /\ pc = "BatchHead"
    /\ IF it < Len(Batches)
       THEN /\ X_batch' = Batches[it + 1][1]
            /\ y_batch' = Batches[it + 1][2]
            /\ local_step' = it
            /\ it' = it + 1
            /\ log' = << >>
            /\ pc' = "Forward"
            /\ UNCHANGED epoch
       ELSE /\ epoch' = epoch + 1
            /\ pc' = "EpochHead"
            /\ UNCHANGED <<X_batch, y_batch, local_step, it, log>>
    /\ UNCHANGED <<genVars, schedVars, modelVars, call, result, error, argVars, fitVars,
                   evalVars, X0, y0, params0, opt_lr0, presented, opt_steps, lr_args,
                   batches_done, shuffles>>

\* preds = self.forward(inputs, len(X_batch)), lines 73-76
Forward ==
    /\ pc = "Forward"
    /\ preds' = [i \in 1 .. Len(X_batch) |-> Predict(params, X_batch[i])]
    /\ log' = Logged("Forward")
    /\ pc' = After("Forward")
    /\ UNCHANGED <<genVars, schedVars, modelVars, call, result, error, argVars, loopVars,
                   global_step, lr, acc, printed, evalVars, X0, y0, params0, opt_lr0,
                   presented, opt_steps, lr_args, batches_done, shuffles>>

\* loss = self.criterion(preds, labels), line 78: the criterion rejects a
\* batch of logits and a batch of labels of different sizes
ComputeLoss ==
    /\ pc = "ComputeLoss"
    /\ IF Len(preds) # Len(y_batch)
       THEN /\ Raise("ValueError", "ComputeLoss")
            /\ UNCHANGED <<presented, log>>
       ELSE /\ presented' = presented \o [i \in 1 .. Len(X_batch) |-> <<X_batch[i], y_batch[i]>>]
            /\ log' = Logged("ComputeLoss")
            /\ pc' = After("ComputeLoss")
            /\ UNCHANGED <<result, error>>
    /\ UNCHANGED <<genVars, schedVars, modelVars, call, argVars, loopVars, fitVars,
                   evalVars, X0, y0, params0, opt_lr0, opt_steps, lr_args, batches_done,
                   shuffles>>

\* a loop that passes the step within the epoch to the scheduler
ComputeLR_localStep ==
    /\ pc = "ComputeLR"
    /\ lr_args' = Append(lr_args, [step |-> local_step, total |-> total_steps,
                                   done |-> batches_done])
    /\ LET r == AdjustLr(opt_lr, local_step, total_steps)
       IN  IF r.err
           THEN /\ Raise("ZeroDivisionError", "ComputeLR")
                /\ UNCHANGED <<lr, opt_lr, log>>
           ELSE /\ lr' = r.lr
                /\ opt_lr' = r.groups
                /\ log' = Logged("ComputeLR")
                /\ pc' = After("ComputeLR")
                /\ UNCHANGED <<result, error>>
    /\ UNCHANGED <<genVars, schedVars, params, grad, call, argVars, loopVars, global_step,
                   preds, acc, printed, evalVars, X0, y0, params0, opt_lr0, presented,
                   opt_steps, batches_done, shuffles>>

\* self.optimizer, lr = self.adjust_lr(self.optimizer, global_step, total_steps), line 79
ComputeLR ==
    /\ pc = "ComputeLR"
    /\ lr_args' = Append(lr_args, [step |-> global_step, total |-> total_steps,
                                   done |-> batches_done])
    /\ LET r == AdjustLr(opt_lr, global_step, total_steps)
       IN  IF r.err
           THEN /\ Raise("ZeroDivisionError", "ComputeLR")
                /\ UNCHANGED <<lr, opt_lr, log>>
           ELSE /\ lr' = r.lr
                /\ opt_lr' = r.groups
                /\ log' = Logged("ComputeLR")
                /\ pc' = After("ComputeLR")
                /\ UNCHANGED <<result, error>>
    /\ UNCHANGED <<genVars, schedVars, params, grad, call, argVars, loopVars, global_step,
                   preds, acc, printed, evalVars, X0, y0, params0, opt_lr0, presented,
                   opt_steps, batches_done, shuffles>>

\* self.optimizer.zero_grad(), line 80
ZeroGrad ==
    /\ pc = "ZeroGrad"
    /\ grad' = "zero"
    /\ log' = Logged("ZeroGrad")
    /\ pc' = After("ZeroGrad")
    /\ UNCHANGED <<genVars, schedVars, params, opt_lr, call, result, error, argVars,
                   loopVars, fitVars, evalVars, X0, y0, params0, opt_lr0, presented,
                   opt_steps, lr_args, batches_done, shuffles>>

\* loss.backward(), line 81
Backward ==
    /\ pc = "Backward"
    /\ grad' = "ready"
    /\ log' = Logged("Backward")
    /\ pc' = After("Backward")
    /\ UNCHANGED <<genVars, schedVars, params, opt_lr, call, result, error, argVars,
                   loopVars, fitVars, evalVars, X0, y0, params0, opt_lr0, presented,
                   opt_steps, lr_args, batches_done, shuffles>>

\* self.optimizer.step(); global_step += 1, lines 82-83: the step changes
\* the parameters when backward() has filled the gradients
OptimizerStep ==
    /\ pc = "OptimizerStep"
    /\ params' = IF grad = "ready" THEN params + 1 ELSE params
    /\ opt_steps' = opt_steps + 1
    /\ global_step' = global_step + 1
    /\ log' = Logged("OptimizerStep")
    /\ pc' = After("OptimizerStep")
    /\ UNCHANGED <<genVars, schedVars, grad, opt_lr, call, result, error, argVars,
                   loopVars, preds, lr, acc, printed, evalVars, X0, y0, params0, opt_lr0,
                   presented, lr_args, batches_done, shuffles>>

\* lines 85-89: the accuracy of the batch, printed every ReportEvery local steps
Report ==
    /\ pc = "Report"
    /\ acc' = <<Matches(preds, y_batch), Len(y_batch)>>
    /\ printed' = IF local_step % ReportEvery = 0 THEN printed + 1 ELSE printed
    /\ batches_done' = batches_done + 1
    /\ log' = Logged("Report")
    /\ pc' = After("Report")
    /\ UNCHANGED <<genVars, schedVars, modelVars, call, result, error, argVars, loopVars,
                   global_step, preds, lr, evalVars, X0, y0, params0, opt_lr0, presented,
                   opt_steps, lr_args, shuffles>>

\* ------------------------------------------------------------- evaluate
\* evaluate(X_test, y_test, batch_size), lines 93-96
CallEvaluate ==
    /\ pc = "Idle" /\ call = "none"
    /\ \E Xa \in FeatureArrays, ya \in LabelArrays, B \in 1 .. MaxBatch :
        /\ call' = "evaluate" /\ result' = "running" /\ error' = NoError
        /\ X' = Xa /\ y' = ya /\ batch_size' = B
        /\ correct' = 0 /\ total' = 0 /\ reported' = 0
        /\ it' = 0 /\ local_step' = 0
        /\ X_batch' = << >> /\ y_batch' = << >> /\ preds' = << >>
        /\ X0' = Xa /\ y0' = ya /\ params0' = params /\ opt_lr0' = opt_lr
        /\ presented' = << >> /\ log' = << >> /\ opt_steps' = 0 /\ lr_args' = << >>
        /\ batches_done' = 0 /\ shuffles' = 0
        /\ pc' = "EvalBatchHead"
        /\ UNCHANGED <<genVars, schedVars, modelVars, n_epoch, en_shuffle, n_batch,
                       total_steps, epoch, global_step, lr, acc, printed>>

\* the for statement of line 98: the next pair of slices, or the end of the loop
EvalBatchHead ==
    /\ pc = "EvalBatchHead"
    /\ IF it < Len(Batches)
       THEN /\ X_batch' = Batches[it + 1][1]
            /\ y_batch' = Batches[it + 1][2]
            /\ it' = it + 1
            /\ pc' = "EvalForward"
       ELSE /\ pc' = "EvalReport"
            /\ UNCHANGED <<X_batch, y_batch, it>>
    /\ UNCHANGED <<genVars, schedVars, modelVars, call, result, error, argVars, epoch,
                   local_step, fitVars, evalVars, histVars>>

\* preds = self.forward(inputs, len(X_batch)), lines 99-102
EvalForward ==
    /\ pc = "EvalForward"
    /\ preds' = [i \in 1 .. Len(X_batch) |-> Predict(params, X_batch[i])]
    /\ pc' = "EvalCount"
    /\ UNCHANGED <<genVars, schedVars, modelVars, call, result, error, argVars, loopVars,
                   global_step, lr, acc, printed, evalVars, histVars>>

\* a loop that counts a full batch for every batch
EvalCount_addsBatchSize ==
    /\ pc = "EvalCount"
    /\ Len(preds) = Len(y_batch)
    /\ total' = total + batch_size
    /\ correct' = correct + Matches(preds, y_batch)
    /\ batches_done' = batches_done + 1
    /\ pc' = "EvalBatchHead"
    /\ UNCHANGED <<result, error>>
    /\ UNCHANGED <<genVars, schedVars, modelVars, call, argVars, loopVars, fitVars,
                   reported, X0, y0, params0, opt_lr0, presented, log, opt_steps, lr_args,
                   shuffles>>

\* total += labels.size(0); correct += (preds == labels).sum(), lines 104-106.
\* For predictions and labels of different sizes the comparison raises, or,
\* when one side has one element and the build broadcasts, compares it with
\* every element of the other side.
EvalCount ==
    /\ pc = "EvalCount"
    /\ \/ /\ Len(preds) = Len(y_batch)
          /\ total' = total + Len(y_batch)
          /\ correct' = correct + Matches(preds, y_batch)
          /\ batches_done' = batches_done + 1
          /\ pc' = "EvalBatchHead"
          /\ UNCHANGED <<result, error>>
       \/ /\ Len(preds) # Len(y_batch)
          /\ Len(preds) = 1 \/ Len(y_batch) = 1
          /\ total' = total + Len(y_batch)
          /\ correct' = correct + BroadcastMatches(preds, y_batch)
          /\ batches_done' = batches_done + 1
          /\ pc' = "EvalBatchHead"
          /\ UNCHANGED <<result, error>>
       \/ /\ Len(preds) # Len(y_batch)
          /\ Raise("RuntimeError", "EvalCount")
          /\ UNCHANGED <<total, correct, batches_done>>
    /\ UNCHANGED <<genVars, schedVars, modelVars, call, argVars, loopVars, fitVars,
                   reported, X0, y0, params0, opt_lr0, presented, log, opt_steps, lr_args,
                   shuffles>>

\* print('Test Accuracy of the model: %.4f' % (float(correct) / total)), line 107
EvalReport ==
    /\ pc = "EvalReport"
    /\ IF total = 0
       THEN /\ Raise("ZeroDivisionError", "EvalReport")
            /\ UNCHANGED reported
       ELSE /\ reported' = Round4(correct, total)
            /\ pc' = "Idle"
            /\ result' = "ok"
            /\ UNCHANGED error
    /\ UNCHANGED <<genVars, schedVars, modelVars, call, argVars, loopVars, fitVars,
                   correct, total, histVars>>

Next ==
    \/ CallFit \/ EpochHead \/ Shuffle \/ BatchHead
    \/ Forward \/ ComputeLoss \/ ComputeLR \/ ZeroGrad \/ Backward \/ OptimizerStep \/ Report
    \/ CallEvaluate \/ EvalBatchHead \/ EvalForward \/ EvalCount \/ EvalReport

Spec == Init /\ [][Next]_vars

\* ------------------------------------------------------------- claims on gen_batch
Ceil(n, b) == (n + b - 1) \div b

RECURSIVE SumLen(_)
SumLen(ss) == IF ss = << >> THEN 0 ELSE Len(Head(ss)) + SumLen(Tail(ss))

\* C1: for every sequence of length N >= 0 and batch size B >= 1 gen_batch
\* yields, in order, the contiguous slices arr[k*B : k*B+B]: every slice has
\* between 1 and B elements, every slice but the last has exactly B, and once
\* the generator is exhausted it has yielded exactly ceil(N/B) slices whose
\* lengths sum to N (no empty slice when B divides N); it never fails.
C1_BatchesPartition ==
    gen.B >= 1 /\ gen.state # "none" =>
        LET N == Len(gen.arr)
            B == gen.B
            n == Len(gen.out)
        IN  /\ gen.state # "error"
            /\ n <= Ceil(N, B)
            /\ \A k \in 1 .. n :
                   /\ Len(gen.out[k]) >= 1
                   /\ Len(gen.out[k]) <= B
                   /\ (k < Ceil(N, B) => Len(gen.out[k]) = B)
                   /\ \A j \in 1 .. Len(gen.out[k]) :
                          /\ (k - 1) * B + j <= N
                          /\ gen.out[k][j] = gen.arr[(k - 1) * B + j]
            /\ (gen.state = "exhausted" => n = Ceil(N, B) /\ SumLen(gen.out) = N)

\* a generator run to its end over a sequence that B does not divide
C1_Witness ==
    /\ gen.state = "exhausted"
    /\ gen.B >= 2
    /\ Len(gen.arr) > gen.B
    /\ Len(gen.arr) % gen.B # 0
    /\ Len(gen.out) = Ceil(Len(gen.arr), gen.B)

\* C7: gen_batch fails (InvalidArgument) for every batch size B <= 0 and
\* every input sequence: a generator with B <= 0 never ends normally.
C7_NonPositiveBatchFails ==
    gen.B <= 0 => gen.state # "exhausted"

StepNames == {Canonical[i] : i \in 1 .. Len(Canonical)}
LogSteps == [i \in 1 .. Len(log) |-> log[i].step]
IsPrefix(a, b) == Len(a) <= Len(b) /\ \A i \in 1 .. Len(a) : a[i] = b[i]
BetweenBatches == pc \in {"BatchHead", "EpochHead"} \/ result = "ok"
EpochOver == (pc = "EpochHead" /\ epoch > 0) \/ result = "ok"

\* C2: in fit with len(X) = len(y), with or without shuffling, X and y stay
\* aligned (the label at every position is the original label of the feature
\* at that position), every pair given to the forward pass and the loss is a
\* pair (X[i], y[i]) of the original data, no index is presented twice in an
\* epoch, and at the end of an epoch every index has been presented.
C2_PairingPreserved ==
    call = "fit" /\ Len(X0) = Len(y0) =>
        /\ Len(X) = Len(y)
        /\ \A i \in 1 .. Len(X) : y[i] = y0[X[i]]
        /\ (pc \in StepNames =>
                /\ Len(X_batch) = Len(y_batch)
                /\ \A i \in 1 .. Len(X_batch) : y_batch[i] = y0[X_batch[i]])
        /\ \A i \in 1 .. Len(presented) : presented[i][2] = y0[presented[i][1]]
        /\ \A i, j \in 1 .. Len(presented) : presented[i][1] = presented[j][1] => i = j
        /\ (EpochOver => {presented[i][1] : i \in 1 .. Len(presented)} = 1 .. Len(X0))

\* a shuffled run of two epochs over three examples with different labels
C2_Witness ==
    /\ call = "fit" /\ result = "ok" /\ en_shuffle /\ n_epoch = 2 /\ batch_size = 2
    /\ Len(X0) = 3 /\ Len(y0) = 3 /\ y0[1] # y0[2]
    /\ X # X0
    /\ Len(presented) = 3

\* C3 (as amended): a run of fit that raises no error goes through, per epoch,
\* the optional shuffle and then, per mini-batch, Forward, ComputeLoss,
\* ComputeLR, ZeroGrad, Backward, OptimizerStep, Report, each exactly once and
\* in this order, one batch after the other, and returns after n_epoch epochs;
\* a run that raises does so in Shuffle, ComputeLoss or ComputeLR, after a
\* prefix of this order, and ends before its n_epoch epochs are done.
C3_StepOrder ==
    call = "fit" =>
        /\ IsPrefix(LogSteps, Canonical)
        /\ \A i, j \in 1 .. Len(log) :
               log[i].epoch = log[j].epoch /\ log[i].local_step = log[j].local_step
        /\ (pc \in StepNames =>
                /\ pc = Canonical[Len(log) + 1]
                /\ \A i \in 1 .. Len(log) :
                       log[i].epoch = epoch /\ log[i].local_step = local_step)
        /\ (pc = "OptimizerStep" =>
                /\ grad = "ready"
                /\ \A g \in ParamGroups : opt_lr[g] = lr
                /\ Len(lr_args) = batches_done + 1)
        /\ (BetweenBatches =>
                /\ LogSteps \in {<< >>, Canonical}
                /\ opt_steps = batches_done
                /\ Len(lr_args) = batches_done
                /\ params = params0 + batches_done)
        /\ (pc = "BatchHead" => batches_done = epoch * Len(Batches) + it)
        /\ (pc \in StepNames \cup {"BatchHead"} =>
                shuffles = IF en_shuffle THEN epoch + 1 ELSE 0)
        /\ (result = "ok" =>
                /\ pc = "Idle"
                /\ epoch = n_epoch
                /\ batches_done = n_epoch * Len(Batches))
        /\ (result = "error" =>
                /\ pc = "Idle"
                /\ epoch < n_epoch
                /\ error.at \in {"Shuffle", "ComputeLoss", "ComputeLR"}
                /\ (error.at = "Shuffle" => LogSteps = << >>)
                /\ (error.at = "ComputeLoss" => LogSteps = <<"Forward">>)
                /\ (error.at = "ComputeLR" => LogSteps = <<"Forward", "ComputeLoss">>))

\* a shuffled run of two epochs of two batches each that has returned
C3_Witness ==
    /\ call = "fit" /\ result = "ok" /\ pc = "Idle"
    /\ en_shuffle /\ n_epoch = 2 /\ epoch = 2
    /\ batches_done = 4 /\ shuffles = 2
    /\ LogSteps = Canonical

\* C3 (as claimed): every run of fit, on arrays of one length, is back in
\* Idle only after n_epoch epochs, each of its mini-batches having gone
\* through all seven steps.
C3_EveryRunCompletes ==
    call = "fit" /\ Len(X0) = Len(y0) /\ pc = "Idle" =>
        /\ epoch = n_epoch
        /\ LogSteps \in {<< >>, Canonical}

C4_Inv ==
    call = "fit" =>
        /\ global_step = opt_steps
        /\ (pc = "EpochHead" /\ epoch = 0 => global_step = 0)
        /\ batches_done <= global_step
        /\ global_step <= batches_done + 1
        /\ \A i \in 1 .. Len(lr_args) :
               /\ lr_args[i].step = i - 1
               /\ lr_args[i].step = lr_args[i].done

C4_Act ==
    /\ (call = "none" /\ call' = "fit" => global_step' = 0)
    /\ (call = "fit" /\ call' = "fit" =>
            /\ global_step' >= global_step
            /\ global_step' <= global_step + 1
            /\ (global_step' # global_step <=> opt_steps' # opt_steps)
            /\ (batches_done' # batches_done =>
                    batches_done' = batches_done + 1 /\ global_step' = batches_done'))

\* C4: the step counter is 0 when a run of fit starts, never decreases, grows
\* by exactly 1 per mini-batch, together with the optimizer step, so that it
\* always equals the number of optimizer steps of the run, and the step
\* passed to the scheduler for a batch is the number of batches completed
\* before it, counted across epochs.
C4_StepCounter == [](C4_Inv) /\ [][C4_Act]_vars

\* the scheduler is called for the first batch of the second epoch
C4_Witness ==
    /\ call = "fit" /\ pc = "ZeroGrad"
    /\ epoch = 1 /\ local_step = 0
    /\ global_step = 2
    /\ Len(lr_args) = 3 /\ lr_args[3].step = 2

\* C5: in evaluate over a non-empty test set with len(X_test) = len(y_test),
\* 0 <= correct <= total after every batch, the loop ends with total =
\* len(X_test) and correct = the number of examples whose predicted class is
\* their label, the accuracy reported is correct / total (to four decimals),
\* and no optimizer step is taken and no parameter or rate is changed.
C5_EvaluateCounts ==
    call = "evaluate" /\ Len(X0) = Len(y0) /\ Len(X0) >= 1 =>
        /\ 0 <= correct /\ correct <= total
        /\ params = params0 /\ opt_lr = opt_lr0 /\ opt_steps = 0 /\ grad = "none"
        /\ result # "error"
        /\ (pc = "EvalBatchHead" =>
                /\ total = Min2(it * batch_size, Len(X0))
                /\ correct = Cardinality({i \in 1 .. total : Predict(params0, X0[i]) = y0[i]}))
        /\ (pc = "EvalReport" \/ result = "ok" =>
                /\ total = Len(X0)
                /\ correct = Cardinality({i \in 1 .. Len(X0) : Predict(params0, X0[i]) = y0[i]}))
        /\ (result = "ok" =>
                /\ 2 * (reported * total - 10000 * correct) <= total
                /\ 2 * (10000 * correct - reported * total) <= total)

\* an evaluation of three examples in two batches, two of them right
C5_Witness ==
    /\ call = "evaluate" /\ result = "ok"
    /\ Len(X0) = 3 /\ Len(y0) = 3 /\ batch_size = 2
    /\ total = 3 /\ correct = 2 /\ reported = 6667

\* C8: when the total step count of a fit call is 0, fit raises and does
\* not return normally, and when it raises no optimizer step has been taken,
\* no rate has been written and the parameters are those of the call.
C8_ZeroTotalStepsAborts ==
    call = "fit" /\ total_steps = 0 =>
        /\ result # "ok"
        /\ (result = "error" =>
                opt_steps = 0 /\ opt_lr = opt_lr0 /\ params = params0)

\* C9: with len(X) # len(y), fit and evaluate raise: neither returns
\* normally.
C9_MismatchedLengthsAbort ==
    call \in {"fit", "evaluate"} /\ Len(X0) # Len(y0) => result # "ok"

\* C10: in a fit call with len(X) = len(y) >= batch_size, every call of the
\* scheduler gets a current_step below total_steps, and no more than
\* total_steps mini-batches are processed.
C10_StepBelowTotal ==
    call = "fit" /\ Len(X0) = Len(y0) /\ Len(X0) >= batch_size =>
        /\ \A i \in 1 .. Len(lr_args) : lr_args[i].step < lr_args[i].total
        /\ batches_done <= total_steps

=============================================================================
